---------------------------- MODULE Spec2Model ----------------------------
(***************************************************************************)
(* Model of ladderweb (src/ladderweb/__init__.py): the read-only analytics *)
(* handlers of the ladder web site over the two tables `players` and       *)
(* `outcomes`.                                                             *)
(*                                                                         *)
(* The database is state the handlers only read: every specification draws *)
(* it in its initial predicate, and every action is one handler (or helper *)
(* function) run to completion, leaving its inputs and its result in       *)
(* `resp`.                                                                 *)
(*                                                                         *)
(* Conventions.                                                            *)
(*   - An SQL NULL / a Python None is the empty tuple <<>>; a present      *)
(*     value v of a nullable column or optional field is <<v>>.            *)
(*   - Text (profile names) is a sequence of one-character strings.        *)
(*   - A timestamp 'YYYY-MM-DD HH:MM:SS' is <<y, m, d, t>> with t the time *)
(*     of day; an ISO date 'YYYY-MM-DD' is <<y, m, d>>.  Both compare      *)
(*     lexicographically, as the zero-padded text does.                    *)
(*   - The win rate and the games per day, Python floats that are the     *)
(*     quotient of two integers, are kept as the exact fraction            *)
(*     [num, den].  The floats of _scaled are IEEE-754 doubles, rounded    *)
(*     as the code rounds them.                                            *)
(*   - url_for(endpoint, key=v) + _args_url() is kept as the record        *)
(*     [endpoint, key]; the query string of the request is not modelled.   *)
(*   - The pass-through fields map, duration, avatar_url, colors and       *)
(*     supports_analysis of the emitted entries are not modelled.          *)
(***************************************************************************)
EXTENDS Integers, Sequences, FiniteSets, TLC

VARIABLES
    players,    \* table players: a set of rows, profile_id unique
    outcomes,   \* table outcomes: a set of rows, hash unique
    today,      \* date.today(), an ISO date <<y, m, d>>
    resp        \* the last call: its name, its inputs and what it returned

vars == <<players, outcomes, today, resp>>

-----------------------------------------------------------------------------
(* Bounds of the model *)

MaxOutcomes == 2        \* rows of table outcomes in Spec and SpecStats
MaxPlayers == 3         \* rows of table players in SpecLeaderboard
MaxLen == 3             \* length of the sequences given to _scaled in SpecScaled
MaxM == 5               \* target lengths given to _scaled in SpecScaled
MaxMatches == 12        \* rows of table outcomes in SpecRatings
MaxSpan == 3            \* days after the first day drawn in SpecActivity

ProfileIds == {1, 2, 3} \* the profile ids that occur
TimesOfDay == {1, 2}    \* times of day of the timestamps (ties are possible)

-----------------------------------------------------------------------------
(* Values *)

None == <<>>

Some(v) == <<v>>

\* Python truthiness of a nullable SQL boolean: None is falsy.
Truthy(x) == x # None /\ x[1]

NoResp == [op |-> "none"]

\* Lexicographic order on tuples of integers of the same length.
RECURSIVE TupleLess(_, _)
TupleLess(a, b) ==
    IF a = <<>> \/ b = <<>> THEN FALSE
    ELSE IF Head(a) # Head(b) THEN Head(a) < Head(b)
    ELSE TupleLess(Tail(a), Tail(b))

\* ORDER BY end_time DESC over a set of rows: every sequence holding each row
\* once with end_time non-increasing.  Rows with equal end_time come in an
\* order SQL does not fix, so the result is the set of possible cursors.
RECURSIVE OrderByEndTimeDesc(_)
OrderByEndTimeDesc(rows) ==
    IF rows = {} THEN {<<>>}
    ELSE LET first == CHOOSE x \in rows : \A y \in rows : ~TupleLess(x.end_time, y.end_time)
         IN  UNION { { <<r>> \o rest : rest \in OrderByEndTimeDesc(rows \ {r}) } :
                     r \in { x \in rows : x.end_time = first.end_time } }

\* ORDER BY end_time (ascending).
RECURSIVE OrderByEndTime(_)
OrderByEndTime(rows) ==
    IF rows = {} THEN {<<>>}
    ELSE LET first == CHOOSE x \in rows : \A y \in rows : ~TupleLess(y.end_time, x.end_time)
         IN  UNION { { <<r>> \o rest : rest \in OrderByEndTime(rows \ {r}) } :
                     r \in { x \in rows : x.end_time = first.end_time } }

\* markupsafe escape() of one character: the five characters & < > ' " are
\* replaced by their entities, every other character is kept.
EscapeChar(c) ==
    CASE c = "&"  -> <<"&", "a", "m", "p", ";">>
      [] c = "<"  -> <<"&", "l", "t", ";">>
      [] c = ">"  -> <<"&", "g", "t", ";">>
      [] c = "'"  -> <<"&", "#", "3", "9", ";">>
      [] c = "\"" -> <<"&", "#", "3", "4", ";">>
      [] OTHER    -> <<c>>

\* flask escape(): None is rendered as the text None, text is HTML-escaped.
RECURSIVE escape(_)
escape(s) ==
    IF s = None THEN <<"N", "o", "n", "e">>
    ELSE IF s[1] = <<>> THEN <<>>
    ELSE EscapeChar(Head(s[1])) \o escape(Some(Tail(s[1])))

\* url_for(endpoint, <key>=value)
url_for(endpoint, value) == [endpoint |-> endpoint, key |-> value]

-----------------------------------------------------------------------------
(* The tables *)

ProfileName(id) ==
    CASE id = 1 -> <<"a", "<">>
      [] id = 2 -> <<"b", "&">>
      [] OTHER  -> <<"c", "'", "\"">>

Player(id, banned, wins, losses, prv_rating, rating) ==
    [profile_id |-> id, profile_name |-> ProfileName(id), banned |-> banned,
     wins |-> wins, losses |-> losses, prv_rating |-> prv_rating, rating |-> rating]

Outcome(hash, end_time, id0, id1, r0, r0prv, r1, r1prv, f0, f1) ==
    [hash |-> hash, end_time |-> end_time,
     profile_id0 |-> id0, profile_id1 |-> id1,
     rating_0 |-> r0, rating_0_prv |-> r0prv,
     rating_1 |-> r1, rating_1_prv |-> r1prv,
     selected_faction_0 |-> f0, selected_faction_1 |-> f1]

BaseDate == <<2024, 1, 1>>

\* Players tables of the match-log specification: each id is absent, present,
\* or present and banned; st gives the state of each id.
GamesPlayers(st) ==
    { Player(id, st[id] = "banned", 1, 1, 1500, 1500) :
      id \in { i \in ProfileIds : st[i] # "absent" } }

\* The pairings <<profile_id0, profile_id1>> that occur: every id occurs in
\* both slots, and each id has a pairing it is not part of.
GamesPairs == {<<1, 2>>, <<2, 1>>, <<1, 3>>, <<3, 2>>}

\* Ledgers of the match-log specification: the outcome of hash h is won by
\* slot 0 with +10h and lost by slot 1 with -10h; c gives each hash its time
\* of day and its pairing.
GamesShapes == [t : TimesOfDay, pair : GamesPairs]

GamesOutcome(h, s) ==
    Outcome(h, BaseDate \o <<s.t>>, s.pair[1], s.pair[2],
            1500 + 10 * h, 1500, 1500 - 10 * h, 1500, "allies", "soviet")

GamesLedger(n, c) == { GamesOutcome(h, c[h]) : h \in 1..n }

-----------------------------------------------------------------------------
(* The joins of latest_games_js and player_games_js *)

\* LEFT JOIN players p ON p.profile_id = id, column p.profile_name: NULL when
\* no row of players has the id.
JoinedName(id) ==
    IF \E p \in players : p.profile_id = id
    THEN Some((CHOOSE p \in players : p.profile_id = id).profile_name)
    ELSE None

\* LEFT JOIN players p ON p.profile_id = id, column p.banned.
JoinedBanned(id) ==
    IF \E p \in players : p.profile_id = id
    THEN Some((CHOOSE p \in players : p.profile_id = id).banned)
    ELSE None

\* The SELECT list of player_games_js for one outcome.
MatchRow(o) ==
    [hash |-> o.hash, end_time |-> o.end_time,
     profile_id0 |-> o.profile_id0, profile_id1 |-> o.profile_id1,
     diff0 |-> o.rating_0 - o.rating_0_prv,
     diff1 |-> o.rating_1 - o.rating_1_prv,
     p0_name |-> JoinedName(o.profile_id0),
     p1_name |-> JoinedName(o.profile_id1),
     p0_banned |-> JoinedBanned(o.profile_id0),
     p1_banned |-> JoinedBanned(o.profile_id1)]

\* WHERE :pid in (o.profile_id0, o.profile_id1)
MatchesInvolving(profile_id) ==
    { MatchRow(o) : o \in { x \in outcomes : profile_id \in {x.profile_id0, x.profile_id1} } }

\* The cursors the query of player_games_js can return.
PlayerGamesCursor(profile_id) == OrderByEndTimeDesc(MatchesInvolving(profile_id))

-----------------------------------------------------------------------------
(* player_games_js *)

\* The if / elif / else at the head of the loop body: the viewed player's slot
\* decides whose columns are the opponent's.  known = FALSE is the `continue`.
MatchView(match, profile_id) ==
    IF match.profile_id0 = profile_id
    THEN [known |-> TRUE, diff |-> match.diff0,
          opponent |-> escape(match.p1_name), opponent_id |-> match.profile_id1,
          opponent_banned |-> match.p1_banned, banned |-> match.p0_banned,
          outcome |-> "Won"]
    ELSE IF match.profile_id1 = profile_id
    THEN [known |-> TRUE, diff |-> match.diff1,
          opponent |-> escape(match.p0_name), opponent_id |-> match.profile_id0,
          opponent_banned |-> match.p0_banned, banned |-> match.p1_banned,
          outcome |-> "Lost"]
    ELSE [known |-> FALSE]

\* Mutant of GameEntry: the replay link is not suppressed for a banned opponent.
GameEntryKeepsReplay(match, v) ==
    [date |-> match.end_time,
     opponent |-> IF ~Truthy(v.opponent_banned)
                  THEN Some([name |-> v.opponent,
                             url |-> url_for("player", v.opponent_id)])
                  ELSE None,
     outcome |-> [desc |-> v.outcome, diff |-> v.diff],
     replay |-> Some([hash |-> match.hash, url |-> url_for("replay", match.hash)])]

\* game = dict(...): the entry of one row, v the row's MatchView.
GameEntry(match, v) ==
    [date |-> match.end_time,
     opponent |-> IF ~Truthy(v.opponent_banned)
                  THEN Some([name |-> v.opponent,
                             url |-> url_for("player", v.opponent_id)])
                  ELSE None,
     outcome |-> [desc |-> v.outcome, diff |-> v.diff],
     replay |-> IF ~Truthy(v.opponent_banned)
                THEN Some([hash |-> match.hash, url |-> url_for("replay", match.hash)])
                ELSE None]

\* Mutant of PlayerGamesLoop: the viewed player's banned flag is never tested.
RECURSIVE PlayerGamesLoopNoBreak(_, _, _, _)
PlayerGamesLoopNoBreak(cur, i, profile_id, games) ==
    IF i > Len(cur) THEN games
    ELSE LET v == MatchView(cur[i], profile_id) IN
         IF ~v.known THEN PlayerGamesLoopNoBreak(cur, i + 1, profile_id, games)
         ELSE PlayerGamesLoopNoBreak(cur, i + 1, profile_id,
                                     Append(games, GameEntry(cur[i], v)))

\* for match in cur: ..., from row i on, with the entries appended so far.
RECURSIVE PlayerGamesLoop(_, _, _, _)
PlayerGamesLoop(cur, i, profile_id, games) ==
    IF i > Len(cur) THEN games
    ELSE LET v == MatchView(cur[i], profile_id) IN
         IF ~v.known THEN PlayerGamesLoop(cur, i + 1, profile_id, games)  \* continue
         ELSE IF Truthy(v.banned) THEN games                              \* break
         ELSE PlayerGamesLoop(cur, i + 1, profile_id,
                              Append(games, GameEntry(cur[i], v)))

\* player_games_js(profile_id) on the cursor cur its query returned.
player_games_js(profile_id, cur) == PlayerGamesLoop(cur, 1, profile_id, <<>>)

\* GET /player-games-js/<profile_id>
PlayerGamesJs ==
    \E profile_id \in ProfileIds :
      \E cur \in PlayerGamesCursor(profile_id) :
        /\ resp' = [op |-> "player_games_js", profile_id |-> profile_id,
                    cur |-> cur, games |-> player_games_js(profile_id, cur)]
        /\ UNCHANGED <<players, outcomes, today>>

-----------------------------------------------------------------------------
(* latest_games_js *)

\* The cursors the query of latest_games_js can return: the SELECT list is
\* that of player_games_js, over all outcomes, ORDER BY o.end_time DESC.
LatestGamesCursor == OrderByEndTimeDesc({ MatchRow(o) : o \in outcomes })

\* Mutant of LatestGameEntry: the replay link is suppressed only when both
\* participants are banned (all() for any()).
LatestGameEntryAll(match) ==
    [replay |-> IF ~(Truthy(match.p0_banned) /\ Truthy(match.p1_banned))
                THEN Some([hash |-> match.hash, url |-> url_for("replay", match.hash)])
                ELSE None,
     date |-> match.end_time,
     p0 |-> IF ~Truthy(match.p0_banned)
            THEN Some([name |-> escape(match.p0_name),
                       url |-> url_for("player", match.profile_id0),
                       diff |-> match.diff0])
            ELSE None,
     p1 |-> IF ~Truthy(match.p1_banned)
            THEN Some([name |-> escape(match.p1_name),
                       url |-> url_for("player", match.profile_id1),
                       diff |-> match.diff1])
            ELSE None]

\* game = dict(...): the entry of one row of the feed.
LatestGameEntry(match) ==
    [replay |-> IF ~(Truthy(match.p0_banned) \/ Truthy(match.p1_banned))
                THEN Some([hash |-> match.hash, url |-> url_for("replay", match.hash)])
                ELSE None,
     date |-> match.end_time,
     p0 |-> IF ~Truthy(match.p0_banned)
            THEN Some([name |-> escape(match.p0_name),
                       url |-> url_for("player", match.profile_id0),
                       diff |-> match.diff0])
            ELSE None,
     p1 |-> IF ~Truthy(match.p1_banned)
            THEN Some([name |-> escape(match.p1_name),
                       url |-> url_for("player", match.profile_id1),
                       diff |-> match.diff1])
            ELSE None]

\* latest_games_js() on the rows `matches` its query returned: one entry per
\* row, in the order of the rows.
latest_games_js(matches) ==
    [i \in 1..Len(matches) |-> LatestGameEntry(matches[i])]

\* GET /latest-js
LatestGamesJs ==
    \E matches \in LatestGamesCursor :
      /\ resp' = [op |-> "latest_games_js", matches |-> matches,
                  games |-> latest_games_js(matches)]
      /\ UNCHANGED <<players, outcomes, today>>

-----------------------------------------------------------------------------
(* Specification of the match log and the latest-games feed *)

Init ==
    /\ \E st \in [ProfileIds -> {"absent", "ok", "banned"}] :
         players = GamesPlayers(st)
    /\ \E n \in 0..MaxOutcomes :
         \E c \in [1..n -> GamesShapes] : outcomes = GamesLedger(n, c)
    /\ today = BaseDate
    /\ resp = NoResp

Next == PlayerGamesJs \/ LatestGamesJs

Spec == Init /\ [][Next]_vars

-----------------------------------------------------------------------------
(* Claims on player_games_js *)

\* The viewed player's own banned flag on a row of the cursor.
ViewedBanned(row, profile_id) ==
    IF row.profile_id0 = profile_id THEN Truthy(row.p0_banned)
    ELSE Truthy(row.p1_banned)

\* The viewed player's rating change on a row; with the date it identifies
\* the row an entry was made from.
ViewedDiff(row, profile_id) ==
    IF row.profile_id0 = profile_id THEN row.diff0 ELSE row.diff1

EntryIsOf(game, row, profile_id) ==
    /\ game.date = row.end_time
    /\ game.outcome.diff = ViewedDiff(row, profile_id)

\* The index of the first row on which the viewed player is banned, or
\* Len(cur) + 1 when there is none.
FirstBanned(cur, profile_id) ==
    IF \E i \in 1..Len(cur) : ViewedBanned(cur[i], profile_id)
    THEN CHOOSE i \in 1..Len(cur) :
           /\ ViewedBanned(cur[i], profile_id)
           /\ \A j \in 1..(i - 1) : ~ViewedBanned(cur[j], profile_id)
    ELSE Len(cur) + 1

\* C1: the match log walks the viewed player's matches most recent first and
\* holds exactly the entries of the rows before the first row on which the
\* viewed player is banned; that row and all later rows contribute nothing.
\* A player banned on every row has an empty log whatever the match count.
C1_BanTruncation ==
    resp.op = "player_games_js" =>
      LET cur == resp.cur
          pid == resp.profile_id
          stop == FirstBanned(cur, pid)
      IN  /\ { r.hash : r \in { cur[i] : i \in 1..Len(cur) } }
               = { o.hash : o \in { x \in outcomes :
                                      pid \in {x.profile_id0, x.profile_id1} } }
          /\ \A i \in 1..(Len(cur) - 1) : ~TupleLess(cur[i].end_time, cur[i + 1].end_time)
          /\ Len(resp.games) = stop - 1
          /\ \A i \in 1..(stop - 1) : EntryIsOf(resp.games[i], cur[i], pid)
          /\ (\A i \in 1..Len(cur) : ViewedBanned(cur[i], pid)) => resp.games = <<>>

\* C1 witness: a banned player with two matches gets an empty log.
C1_Witness ==
    /\ resp.op = "player_games_js"
    /\ Len(resp.cur) >= 2
    /\ \A i \in 1..Len(resp.cur) : ViewedBanned(resp.cur[i], resp.profile_id)
    /\ resp.games = <<>>

\* C2: every row on which the viewed player is not banned yields exactly one
\* entry; with a banned opponent the entry has no opponent and no replay link,
\* otherwise it carries the opponent's name and url and the replay link.
C2_OpponentRedaction ==
    resp.op = "player_games_js" =>
      LET cur == resp.cur
          pid == resp.profile_id
      IN  \A i \in 1..Len(cur) :
            ~ViewedBanned(cur[i], pid) =>
              LET row == cur[i]
                  oppSlot0 == row.profile_id0 # pid
                  oppId == IF oppSlot0 THEN row.profile_id0 ELSE row.profile_id1
                  oppName == IF oppSlot0 THEN row.p0_name ELSE row.p1_name
                  oppBanned == IF oppSlot0 THEN Truthy(row.p0_banned)
                               ELSE Truthy(row.p1_banned)
                  made == { k \in 1..Len(resp.games) : EntryIsOf(resp.games[k], row, pid) }
              IN  /\ Cardinality(made) = 1
                  /\ \A k \in made :
                       IF oppBanned
                       THEN /\ resp.games[k].opponent = None
                            /\ resp.games[k].replay = None
                       ELSE /\ resp.games[k].opponent
                                 = Some([name |-> escape(oppName),
                                         url |-> url_for("player", oppId)])
                            /\ resp.games[k].replay
                                 = Some([hash |-> row.hash,
                                         url |-> url_for("replay", row.hash)])

\* C2 witness: a log of two entries, one against a banned opponent (redacted)
\* and one against an opponent in good standing (name and replay present).
C2_Witness ==
    /\ resp.op = "player_games_js"
    /\ Len(resp.games) = 2
    /\ \E i, j \in 1..2 :
         /\ resp.games[i].opponent = None
         /\ resp.games[i].replay = None
         /\ resp.games[j].opponent # None
         /\ resp.games[j].replay # None

-----------------------------------------------------------------------------
(* Claims on latest_games_js *)

\* Whether the players table marks a profile id as banned.
IsBanned(id) == \E p \in players : p.profile_id = id /\ p.banned

\* C11: in the latest-games feed every outcome yields exactly one entry, in
\* descending end_time order; a banned participant is emitted as None (no
\* name, url or rating diff), and the replay link is present if and only if
\* neither participant is banned.
C11_FeedRedaction ==
    resp.op = "latest_games_js" =>
      LET rows == resp.matches
          games == resp.games
      IN  /\ Len(games) = Cardinality(outcomes)
          /\ Len(rows) = Len(games)
          /\ { rows[i].hash : i \in 1..Len(rows) } = { o.hash : o \in outcomes }
          /\ \A i \in 1..(Len(games) - 1) :
               ~TupleLess(games[i].date, games[i + 1].date)
          /\ \A i \in 1..Len(games) :
               \E o \in outcomes :
                 /\ o.hash = rows[i].hash
                 /\ games[i].date = o.end_time
                 /\ (games[i].p0 = None) <=> IsBanned(o.profile_id0)
                 /\ (games[i].p1 = None) <=> IsBanned(o.profile_id1)
                 /\ games[i].p0 # None =>
                      /\ games[i].p0[1].url = url_for("player", o.profile_id0)
                      /\ games[i].p0[1].diff = o.rating_0 - o.rating_0_prv
                 /\ games[i].p1 # None =>
                      /\ games[i].p1[1].url = url_for("player", o.profile_id1)
                      /\ games[i].p1[1].diff = o.rating_1 - o.rating_1_prv
                 /\ (games[i].replay # None)
                      <=> (~IsBanned(o.profile_id0) /\ ~IsBanned(o.profile_id1))
                 /\ games[i].replay # None =>
                      games[i].replay[1].hash = o.hash

\* C11 witness: a feed of two entries, one of a match with exactly one banned
\* participant (that participant and the replay are None, the other is
\* named) and one of a match without banned participant (replay present).
C11_Witness ==
    /\ resp.op = "latest_games_js"
    /\ Len(resp.games) = 2
    /\ \E i, j \in 1..2 :
         /\ resp.games[i].p0 = None
         /\ resp.games[i].p1 # None
         /\ resp.games[i].replay = None
         /\ resp.games[j].p0 # None
         /\ resp.games[j].p1 # None
         /\ resp.games[j].replay # None

-----------------------------------------------------------------------------
(* leaderboard_js *)

\* Players tables of the leaderboard specification: ids 1..n, each row with a
\* rating that is zero or positive (two rows may tie), banned or not, and no
\* game or three games played; c gives each id its row.
LeaderboardRatings == {0, 1500, 1600}

LeaderboardRecords == {<<0, 0>>, <<1, 2>>}

LeaderboardShapes ==
    [banned : BOOLEAN, wl : LeaderboardRecords, rating : LeaderboardRatings]

LeaderboardPlayers(n, c) ==
    { Player(id, c[id].banned, c[id].wl[1], c[id].wl[2], 1490 + 10 * id, c[id].rating) :
      id \in 1..n }

\* WHERE rating > 0 AND NOT banned
RankablePlayers == { p \in players : p.rating > 0 /\ ~p.banned }

\* Mutant of OrderByRatingDesc: ORDER BY rating (ascending).
RECURSIVE OrderByRatingAsc(_)
OrderByRatingAsc(rows) ==
    IF rows = {} THEN {<<>>}
    ELSE UNION { { <<r>> \o rest : rest \in OrderByRatingAsc(rows \ {r}) } :
                 r \in { x \in rows : \A y \in rows : x.rating <= y.rating } }

\* ORDER BY rating DESC: the possible cursors; the order of rows with equal
\* rating is not fixed by the query.
RECURSIVE OrderByRatingDesc(_)
OrderByRatingDesc(rows) ==
    IF rows = {} THEN {<<>>}
    ELSE UNION { { <<r>> \o rest : rest \in OrderByRatingDesc(rows \ {r}) } :
                 r \in { x \in rows : \A y \in rows : x.rating >= y.rating } }

\* The cursors the query of leaderboard_js can return.
LeaderboardCursor == OrderByRatingDesc(RankablePlayers)

\* rows.append(dict(...)) for the i-th row p of the cursor.  winrate is
\* wins / (wins + losses) * 100 as the fraction 100 * wins / (wins + losses);
\* LeaderboardLoop raises before building a row with wins + losses = 0.
LeaderboardRow(i, p) ==
    [row_id |-> i,
     player |-> [name |-> escape(Some(p.profile_name)),
                 url |-> url_for("player", p.profile_id)],
     rating |-> [value |-> p.rating, diff |-> p.rating - p.prv_rating],
     played |-> p.wins + p.losses,
     wins |-> p.wins,
     losses |-> p.losses,
     winrate |-> [num |-> 100 * p.wins, den |-> p.wins + p.losses]]

\* for i, (...) in enumerate(cur, 1): from row i on, with the rows appended so
\* far.  The division by wins + losses = 0 raises ZeroDivisionError, which
\* ends the handler without a response body.
RECURSIVE LeaderboardLoop(_, _, _)
LeaderboardLoop(cur, i, rows) ==
    IF i > Len(cur) THEN [status |-> "ok", rows |-> rows]
    ELSE IF cur[i].wins + cur[i].losses = 0
         THEN [status |-> "ZeroDivisionError", rows |-> <<>>]
         ELSE LeaderboardLoop(cur, i + 1, Append(rows, LeaderboardRow(i, cur[i])))

\* leaderboard_js() on the cursor cur its query returned.
leaderboard_js(cur) == LeaderboardLoop(cur, 1, <<>>)

\* GET /leaderboard-js
LeaderboardJs ==
    \E cur \in LeaderboardCursor :
      LET r == leaderboard_js(cur) IN
        /\ resp' = [op |-> "leaderboard_js", status |-> r.status, rows |-> r.rows]
        /\ UNCHANGED <<players, outcomes, today>>

InitLeaderboard ==
    /\ \E n \in 0..MaxPlayers :
         \E c \in [1..n -> LeaderboardShapes] : players = LeaderboardPlayers(n, c)
    /\ outcomes = {}
    /\ today = BaseDate
    /\ resp = NoResp

NextLeaderboard == LeaderboardJs

SpecLeaderboard == InitLeaderboard /\ [][NextLeaderboard]_vars

-----------------------------------------------------------------------------
(* Claims on leaderboard_js *)

\* The rows of the last leaderboard response, as a set.
EmittedRows == { resp.rows[i] : i \in 1..Len(resp.rows) }

\* The player a leaderboard row is about: the profile_id of its player url.
RowPlayer(r) == r.player.url.key

\* C3 as stated: rank(p) <= rank(q) whenever rating(p) >= rating(q), for
\* every pair of emitted players, pairs of equal rating included.
C3_RankOrderAllPairs ==
    resp.op = "leaderboard_js" =>
      \A p, q \in EmittedRows :
        p.rating.value >= q.rating.value => p.row_id <= q.row_id

\* C3 amended: a player with a strictly higher rating has a strictly smaller
\* rank; players of equal rating take distinct ranks in an order the query
\* does not fix.
C3_RankOrderStrict ==
    resp.op = "leaderboard_js" =>
      /\ \A p, q \in EmittedRows :
           p.rating.value > q.rating.value => p.row_id < q.row_id
      /\ \A p, q \in EmittedRows :
           (RowPlayer(p) # RowPlayer(q)) => p.row_id # q.row_id

\* C3 witness: a leaderboard with two players of equal rating above a third
\* of lower rating.
C3_Witness ==
    /\ resp.op = "leaderboard_js"
    /\ resp.status = "ok"
    /\ \E p, q, r \in EmittedRows :
         /\ RowPlayer(p) # RowPlayer(q)
         /\ p.rating.value = q.rating.value
         /\ r.rating.value < p.rating.value
         /\ r.row_id = 3

\* C4: for any players table the emitted rows are exactly the players with
\* rating > 0 that are not banned, once each, with row_id 1..k, played =
\* wins + losses and rating diff = rating - prv_rating.
C4_Membership ==
    resp.op = "leaderboard_js" =>
      /\ { RowPlayer(r) : r \in EmittedRows }
           = { p.profile_id : p \in { x \in players : x.rating > 0 /\ ~x.banned } }
      /\ Len(resp.rows) = Cardinality({ x \in players : x.rating > 0 /\ ~x.banned })
      /\ \A i \in 1..Len(resp.rows) : resp.rows[i].row_id = i
      /\ \A r \in EmittedRows :
           \E p \in players :
             /\ p.profile_id = RowPlayer(r)
             /\ r.played = p.wins + p.losses
             /\ r.rating.diff = p.rating - p.prv_rating

\* C5: the leaderboard never fails: every rankable player gets a row, a
\* player with no game played gets a defined guarded win rate (0%), and a
\* player with games gets wins / (wins + losses) * 100.
C5_NeverFails ==
    resp.op = "leaderboard_js" =>
      /\ resp.status = "ok"
      /\ \A p \in { x \in players : x.rating > 0 /\ ~x.banned } :
           \E r \in EmittedRows :
             /\ RowPlayer(r) = p.profile_id
             /\ IF p.wins + p.losses = 0
                THEN r.winrate = [num |-> 0, den |-> 1]
                ELSE r.winrate = [num |-> 100 * p.wins, den |-> p.wins + p.losses]

-----------------------------------------------------------------------------
(* _scaled *)

\* The arithmetic of _scaled is that of IEEE-754 doubles: x * n / m and the
\* interpolant are rounded to 53 significant bits before round() sees them.
\* A double is kept here as sign and magnitude, the magnitude as an integer
\* part and a sequence of fraction bits (frac[i] weighs 2^-i).

Bits(num) == [int |-> num, frac |-> <<>>]

AnyOne(bits) == \E i \in 1..Len(bits) : bits[i] = 1

\* Number of bits of the integer i >= 0.
RECURSIVE BitLen(_)
BitLen(i) == IF i = 0 THEN 0 ELSE 1 + BitLen(i \div 2)

\* Number of zero bits before the first one bit.
LeadingZeros(bits) ==
    Cardinality({ i \in 1..Len(bits) : \A j \in 1..i : bits[j] = 0 })

\* One unit added in the last place of the fraction: the bits after the last
\* zero bit become zero and that bit one, or the carry reaches the integer.
Increment(v) ==
    LET zeros == { i \in 1..Len(v.frac) : v.frac[i] = 0 }
    IN  IF zeros = {} THEN [int |-> v.int + 1, frac |-> [i \in 1..Len(v.frac) |-> 0]]
        ELSE LET z == CHOOSE i \in zeros : \A j \in zeros : j <= i
             IN  [int |-> v.int,
                  frac |-> [i \in 1..Len(v.frac) |->
                              IF i < z THEN v.frac[i] ELSE IF i = z THEN 1 ELSE 0]]

\* Fraction bits taken eight at a time (a limb, most significant bit first),
\* which keeps the carries of division and multiplication short.
BitAt(bits, i) == IF i <= Len(bits) THEN bits[i] ELSE 0

ToLimbs(bits) ==
    [k \in 1..((Len(bits) + 7) \div 8) |->
       LET o == 8 * (k - 1)
       IN  128 * BitAt(bits, o + 1) + 64 * BitAt(bits, o + 2)
           + 32 * BitAt(bits, o + 3) + 16 * BitAt(bits, o + 4)
           + 8 * BitAt(bits, o + 5) + 4 * BitAt(bits, o + 6)
           + 2 * BitAt(bits, o + 7) + BitAt(bits, o + 8)]

ToBits(limbs) ==
    [i \in 1..(8 * Len(limbs)) |->
       (limbs[((i - 1) \div 8) + 1] \div (2 ^ (7 - ((i - 1) % 8)))) % 2]

\* The double nearest to the magnitude v (a tie to the even one); sticky says
\* that the exact value has further non-zero bits below those of v.
RoundDouble(v, sticky) ==
    LET f == IF v.int > 0 THEN 53 - BitLen(v.int) ELSE LeadingZeros(v.frac) + 53
        n == Len(v.frac)
    IN  IF n <= f THEN v
        ELSE LET kept  == [int |-> v.int, frac |-> SubSeq(v.frac, 1, f)]
                 lsb   == IF f = 0 THEN v.int % 2 ELSE v.frac[f]
                 below == sticky \/ AnyOne(SubSeq(v.frac, f + 2, n))
             IN  IF v.frac[f + 1] = 1 /\ (below \/ lsb = 1) THEN Increment(kept)
                 ELSE kept

\* The first count limbs of the fraction rem / m (0 <= rem < m < 2^23) and
\* what is left of rem.
RECURSIVE DivLimbs(_, _, _)
DivLimbs(rem, m, count) ==
    IF count = 0 THEN [limbs |-> <<>>, rem |-> rem]
    ELSE LET rest == DivLimbs((256 * rem) % m, m, count - 1)
         IN  [limbs |-> <<(256 * rem) \div m>> \o rest.limbs, rem |-> rest.rem]

\* The double num / m of two integers num >= 0, m > 0.  Eleven limbs always
\* hold the 53 significant bits and the bit below them.
FloatDiv(num, m) ==
    IF num % m = 0 THEN Bits(num \div m)
    ELSE LET d == DivLimbs(num % m, m, 11)
         IN  RoundDouble([int |-> num \div m, frac |-> ToBits(d.limbs)], d.rem # 0)

\* The exact product of the limbs and the integer c (0 <= c < 2^23).
RECURSIVE MulLimbs(_, _, _)
MulLimbs(limbs, c, carry) ==
    LET n == Len(limbs)
    IN  IF n = 0 THEN [int |-> carry, limbs |-> <<>>]
        ELSE LET v  == limbs[n] * c + carry
                 up == MulLimbs(SubSeq(limbs, 1, n - 1), c, v \div 256)
             IN  [int |-> up.int, limbs |-> Append(up.limbs, v % 256)]

\* The exact product of the fraction bits and the integer c >= 0.
MulBits(bits, c) ==
    LET p == MulLimbs(ToLimbs(bits), c, 0)
    IN  [int |-> p.int, frac |-> ToBits(p.limbs)]

\* 1 - 0.bits, for bits that are not all zero.
Complement(bits) ==
    Increment([int |-> 0, frac |-> [i \in 1..Len(bits) |-> 1 - bits[i]]]).frac

Abs(i) == IF i < 0 THEN 0 - i ELSE i

\* The exact sum of the integer a and the magnitude p taken negative if pneg.
AddInt(a, pneg, p) ==
    IF a = 0 \/ (a < 0) = pneg
    THEN [neg |-> pneg, int |-> Abs(a) + p.int, frac |-> p.frac]
    ELSE IF p.int >= Abs(a)
    THEN [neg |-> pneg, int |-> p.int - Abs(a), frac |-> p.frac]
    ELSE IF ~AnyOne(p.frac)
    THEN [neg |-> a < 0, int |-> Abs(a) - p.int, frac |-> <<>>]
    ELSE [neg |-> a < 0, int |-> Abs(a) - p.int - 1, frac |-> Complement(p.frac)]

\* np.interp(x, range(n), a) in doubles at x = xnum / m: x beyond the last
\* position, or in the last segment's end, gives the last sample; x on a
\* position gives its sample; otherwise slope * (x - xp[j]) + fp[j] with the
\* product and the sum each rounded.
FloatInterp(xnum, m, a) ==
    LET n == Len(a)
        x == FloatDiv(xnum, m)
        j == x.int
    IN  IF j >= n - 1 THEN [neg |-> a[n] < 0, int |-> Abs(a[n]), frac |-> <<>>]
        ELSE IF ~AnyOne(x.frac)
        THEN [neg |-> a[j + 1] < 0, int |-> Abs(a[j + 1]), frac |-> <<>>]
        ELSE LET slope == a[j + 2] - a[j + 1]
                 p == RoundDouble(MulBits(x.frac, Abs(slope)), FALSE)
                 s == AddInt(a[j + 1], slope < 0, p)
                 r == RoundDouble([int |-> s.int, frac |-> s.frac], FALSE)
             IN  [neg |-> s.neg, int |-> r.int, frac |-> r.frac]

\* Python round() of a double: to the nearest integer, a tie to the even one.
FloatRound(v) ==
    LET up == IF v.frac = <<>> \/ v.frac[1] = 0 THEN FALSE
              ELSE IF AnyOne(Tail(v.frac)) THEN TRUE
              ELSE v.int % 2 = 1
        q  == IF up THEN v.int + 1 ELSE v.int
    IN  IF v.neg THEN 0 - q ELSE q

\* round() of the exact fraction num / den (den > 0): to the nearest integer,
\* a tie to the even one.
round(num, den) ==
    LET q == num \div den
        r == num % den
    IN  IF 2 * r < den THEN q
        ELSE IF 2 * r > den THEN q + 1
        ELSE IF q % 2 = 0 THEN q ELSE q + 1

\* The exact interpolant at x = xnum / m, as a fraction over m: a is sampled
\* at 0..n-1 (a[j + 1] here is the sample at position j); x at or beyond the
\* last position n-1 gives the last sample, otherwise the value on the segment
\* from floor(x) to floor(x) + 1.
interp(xnum, m, a) ==
    LET n == Len(a)
        j == xnum \div m
    IN  IF j >= n - 1 THEN a[n] * m
        ELSE a[j + 1] * m + (a[j + 2] - a[j + 1]) * (xnum % m)

\* The doubles of FloatInterp differ from the exact interpolant by less than
\* 2^-22 * (n + 2) for samples below 2^31.  An exact interpolant k / m that is
\* not halfway between two integers is at least 1 / (2m) away from halfway,
\* so for m * (n + 2) < 2^21 the double rounds as the exact value num / m does.
ExactDecides(num, m, n) ==
    /\ m * (n + 2) < 2097152
    /\ (2 * num) % (2 * m) # m

\* _scaled(a, m): mr = [x * n / m for x in range(m)], the interpolant at each
\* position of mr, rounded.  Only where the exact interpolant is halfway
\* between two integers can the rounding of the doubles change the result.
_scaled(a, m) ==
    [k \in 1..m |->
       LET xnum  == (k - 1) * Len(a)
           exact == interp(xnum, m, a)
       IN  IF ExactDecides(exact, m, Len(a)) THEN round(exact, m)
           ELSE FloatRound(FloatInterp(xnum, m, a))]

\* The samples SpecScaled draws its inputs from.
ScaledSamples == {0, 50, 100}

ScaledInputs == UNION { [1..n -> ScaledSamples] : n \in 1..MaxLen }

\* A call _scaled(a, m) with n >= 1 samples and m >= 1.
Scaled ==
    \E a \in ScaledInputs, m \in 1..MaxM :
      /\ resp' = [op |-> "_scaled", a |-> a, m |-> m, out |-> _scaled(a, m)]
      /\ UNCHANGED <<players, outcomes, today>>

InitScaled ==
    /\ players = {}
    /\ outcomes = {}
    /\ today = BaseDate
    /\ resp = NoResp

NextScaled == Scaled

SpecScaled == InitScaled /\ [][NextScaled]_vars

-----------------------------------------------------------------------------
(* Claims on _scaled *)

\* C8: for n >= 1 samples and m >= 1 the output has m values, starts at
\* round(a[0]) and ends at round(a[n-1]) (a resampling over the whole domain
\* [0, n-1]); [0, 100] with m = 5 gives [0, 25, 50, 75, 100]; m = n gives the
\* rounded input.  The samples are integers, so round(a[i]) = a[i].
C8_FullDomain ==
    resp.op = "_scaled" =>
      LET a == resp.a
          m == resp.m
          n == Len(resp.a)
      IN  /\ Len(resp.out) = m
          /\ resp.out[1] = a[1]
          /\ resp.out[m] = a[n]
          /\ (a = <<0, 100>> /\ m = 5) => resp.out = <<0, 25, 50, 75, 100>>
          /\ (m = n) => resp.out = a

-----------------------------------------------------------------------------
(* _get_player_ratings *)

\* _cfg
min_datapoints == 10

datapoints == 50

\* json.dumps of a list: the JSON text, kept as the array it denotes.
json_dumps(list) == [json |-> "array", items |-> list]

\* The SELECT of _get_player_ratings: the possible cursors over the matches
\* of profile_id, ascending by end_time.  The cursor has one row per outcome
\* row: outcomes that agree on the four selected columns stay separate rows.
PlayerRatingsCursor(profile_id) ==
    { [i \in 1..Len(rows) |->
         [profile_id0 |-> rows[i].profile_id0, profile_id1 |-> rows[i].profile_id1,
          rating_0 |-> rows[i].rating_0, rating_1 |-> rows[i].rating_1]] :
      rows \in OrderByEndTime({ o \in outcomes :
                                 profile_id \in {o.profile_id0, o.profile_id1} }) }

\* for match in cur: ratings.append(rating), from row i on.
RECURSIVE PlayerRatingsLoop(_, _, _, _)
PlayerRatingsLoop(cur, i, profile_id, ratings) ==
    IF i > Len(cur) THEN ratings
    ELSE IF cur[i].profile_id0 = profile_id
         THEN PlayerRatingsLoop(cur, i + 1, profile_id, Append(ratings, cur[i].rating_0))
    ELSE IF cur[i].profile_id1 = profile_id
         THEN PlayerRatingsLoop(cur, i + 1, profile_id, Append(ratings, cur[i].rating_1))
    ELSE PlayerRatingsLoop(cur, i + 1, profile_id, ratings)   \* continue

\* Mutant of DiscardWarmup: the slice starts one entry early.
DiscardWarmupOffByOne(ratings) ==
    SubSeq(ratings, min_datapoints, Len(ratings))

\* ratings[_cfg['min_datapoints']:]
DiscardWarmup(ratings) ==
    SubSeq(ratings, min_datapoints + 1, Len(ratings))

\* _get_player_ratings(db, profile_id) on the cursor cur its query returned.
\* curve tells which return was taken: "empty" is `return [], []`, "resampled"
\* the dict of the two JSON texts.  scaled_calls lists the arguments _scaled
\* was called with.
_get_player_ratings(profile_id, cur) ==
    LET ratings == DiscardWarmup(PlayerRatingsLoop(cur, 1, profile_id, <<>>)) IN
    IF ratings = <<>>
    THEN [curve |-> "empty", labels |-> <<>>, data |-> <<>>, scaled_calls |-> <<>>]
    ELSE [curve |-> "resampled",
          labels |-> json_dumps([x \in 1..datapoints |-> ""]),
          data |-> json_dumps(_scaled(ratings, datapoints)),
          scaled_calls |-> <<[a |-> ratings, m |-> datapoints]>>]

\* A call _get_player_ratings(db, profile_id).
GetPlayerRatings ==
    \E profile_id \in ProfileIds :
      \E cur \in PlayerRatingsCursor(profile_id) :
        /\ resp' = [op |-> "_get_player_ratings", profile_id |-> profile_id,
                    rating_stats |-> _get_player_ratings(profile_id, cur)]
        /\ UNCHANGED <<players, outcomes, today>>

\* Ledgers of the rating-curve specification: the outcome of hash h ends at
\* time of day h with ratings 1500 + 10h (slot 0) and 1500 - 10h (slot 1),
\* except that the outcome of hash 2 repeats the end time and the ratings of
\* hash 1, so that two rows of the table can agree on everything but hash;
\* player 1 is in every match, in either slot.
RatingsPairs == {<<1, 2>>, <<3, 1>>}

RatingsStamp(h) == IF h = 2 THEN 1 ELSE h

RatingsOutcome(h, pair) ==
    Outcome(h, BaseDate \o <<RatingsStamp(h)>>, pair[1], pair[2],
            1500 + 10 * RatingsStamp(h), 1500, 1500 - 10 * RatingsStamp(h), 1500,
            "allies", "soviet")

RatingsLedger(n, c) == { RatingsOutcome(h, c[h]) : h \in 1..n }

InitRatings ==
    /\ players = GamesPlayers([i \in ProfileIds |-> "ok"])
    /\ \E n \in 0..MaxMatches :
         \E c \in [1..n -> RatingsPairs] : outcomes = RatingsLedger(n, c)
    /\ today = BaseDate
    /\ resp = NoResp

NextRatings == GetPlayerRatings

SpecRatings == InitRatings /\ [][NextRatings]_vars

-----------------------------------------------------------------------------
(* Claims on _get_player_ratings *)

\* The matches of a player in the ledger.
MatchesOf(pid) == { o \in outcomes : pid \in {o.profile_id0, o.profile_id1} }

\* The player's own rating in one of their matches.
OwnRating(o, pid) == IF o.profile_id0 = pid THEN o.rating_0 ELSE o.rating_1

\* The position of a match among the player's matches by ascending end_time
\* (in SpecRatings only the first two matches can share an end time).
Chronological(o, pid) ==
    1 + Cardinality({ x \in MatchesOf(pid) : TupleLess(x.end_time, o.end_time) })

\* C10: the player's own ratings are taken in ascending end_time order and
\* the first min_datapoints (10) are discarded; with at most 10 matches the
\* curve is empty and _scaled is not called; with more than 10 the curve has
\* exactly datapoints (50) data values and 50 blank labels.  _scaled is never
\* called with an empty sequence.
C10_RatingCurve ==
    resp.op = "_get_player_ratings" =>
      LET pid == resp.profile_id
          r == resp.rating_stats
          count == Cardinality(MatchesOf(pid))
      IN  /\ \A k \in 1..Len(r.scaled_calls) : r.scaled_calls[k].a # <<>>
          /\ IF count <= 10
             THEN /\ r.curve = "empty"
                  /\ r.scaled_calls = <<>>
             ELSE /\ r.curve = "resampled"
                  /\ Len(r.scaled_calls) = 1
                  /\ r.scaled_calls[1].m = 50
                  /\ Len(r.scaled_calls[1].a) = count - 10
                  /\ \A o \in MatchesOf(pid) :
                       Chronological(o, pid) > 10 =>
                         r.scaled_calls[1].a[Chronological(o, pid) - 10] = OwnRating(o, pid)
                  /\ Len(r.data.items) = 50
                  /\ Len(r.labels.items) = 50
                  /\ \A k \in 1..50 : r.labels.items[k] = ""

\* C10 witness: a player with more than 10 matches, in both slots and two of
\* them alike in everything but hash, gets a curve of 50 values that moves.
C10_Witness ==
    /\ resp.op = "_get_player_ratings"
    /\ Cardinality(MatchesOf(resp.profile_id)) = 12
    /\ \E o, x \in MatchesOf(resp.profile_id) :
         o.hash # x.hash /\ o = [x EXCEPT !.hash = o.hash]
    /\ \E o \in outcomes : o.profile_id0 = resp.profile_id
    /\ \E o \in outcomes : o.profile_id1 = resp.profile_id
    /\ resp.rating_stats.curve = "resampled"
    /\ Len(resp.rating_stats.data.items) = 50
    /\ resp.rating_stats.data.items[1] # resp.rating_stats.data.items[50]

-----------------------------------------------------------------------------
(* Faction histograms and the player page *)

\* The factions, in the order GROUP BY emits its groups.
FactionOrder == <<"allies", "soviet">>

Factions == { FactionOrder[i] : i \in 1..Len(FactionOrder) }

\* sum() of a sequence of integers.
RECURSIVE sum(_)
sum(list) == IF list = <<>> THEN 0 ELSE Head(list) + sum(Tail(list))

\* The rows of a GROUP BY faction over the factions with n[f] > 0 joined rows,
\* as <<faction, count>> pairs, from FactionOrder[i] on; cnt[f] is the count
\* column of the group.
RECURSIVE GroupRows(_, _, _)
GroupRows(i, n, cnt) ==
    IF i > Len(FactionOrder) THEN <<>>
    ELSE LET f == FactionOrder[i] IN
         (IF n[f] > 0 THEN << <<f, cnt[f]>> >> ELSE <<>>) \o GroupRows(i + 1, n, cnt)

\* SELECT COUNT(*) AS count, selected_faction_{i} AS faction FROM outcomes
\* GROUP BY selected_faction_{i}
SlotFactionRows(i) ==
    LET n == [f \in Factions |->
                Cardinality({ o \in outcomes :
                              (IF i = 0 THEN o.selected_faction_0
                               ELSE o.selected_faction_1) = f })]
    IN  GroupRows(1, n, n)

\* dict.update(items) on a dict kept as its <<key, value>> pairs in insertion
\* order: a key already present keeps its place and takes the new value, a new
\* key is appended.
RECURSIVE DictUpdate(_, _)
DictUpdate(hist, items) ==
    IF items = <<>> THEN hist
    ELSE LET kv == Head(items)
             upd == IF \E k \in 1..Len(hist) : hist[k][1] = kv[1]
                    THEN [k \in 1..Len(hist) |->
                            IF hist[k][1] = kv[1] THEN kv ELSE hist[k]]
                    ELSE Append(hist, kv)
         IN  DictUpdate(upd, Tail(items))

\* dict(names=..., data=..., total=...) of a non-empty list of pairs.
Histogram(hist) ==
    [shape |-> "dict",
     names |-> [k \in 1..Len(hist) |-> hist[k][1]],
     data |-> [k \in 1..Len(hist) |-> hist[k][2]],
     total |-> sum([k \in 1..Len(hist) |-> hist[k][2]])]

\* _get_global_faction_stats(db): the two slots' groups are merged with
\* hist.update; shape "lists" is `return [], [], []`.
_get_global_faction_stats ==
    LET hist == DictUpdate(DictUpdate(<<>>, SlotFactionRows(0)), SlotFactionRows(1)) IN
    IF hist = <<>>
    THEN [shape |-> "lists", names |-> <<>>, data |-> <<>>, total |-> 0]
    ELSE Histogram(hist)

\* A call _get_global_faction_stats(db).
GetGlobalFactionStats ==
    /\ resp' = [op |-> "_get_global_faction_stats",
                faction_stats |-> _get_global_faction_stats]
    /\ UNCHANGED <<players, outcomes, today>>

\* FROM outcomes o LEFT JOIN players p ON p.profile_id IN (o.profile_id0,
\* o.profile_id1): the number of joined rows of one outcome, one per player
\* row of either participant, and one (with p NULL) when there is none.
JoinedPlayerRows(o) ==
    LET k == Cardinality({ p \in players :
                           p.profile_id \in {o.profile_id0, o.profile_id1} })
    IN  IF k = 0 THEN 1 ELSE k

\* CASE WHEN o.profile_id0=:pid THEN selected_faction_0
\*      WHEN o.profile_id1=:pid THEN selected_faction_1 END
OwnFaction(o, profile_id) ==
    IF o.profile_id0 = profile_id THEN o.selected_faction_0
    ELSE o.selected_faction_1

\* Sum of JoinedPlayerRows over a set of outcomes.
RECURSIVE JoinedRowCount(_)
JoinedRowCount(os) ==
    IF os = {} THEN 0
    ELSE LET o == CHOOSE x \in os : TRUE
         IN  JoinedPlayerRows(o) + JoinedRowCount(os \ {o})

\* The query of _get_player_faction_stats: COUNT(*)/2 per own faction over the
\* joined rows of the matches of profile_id.
PlayerFactionRows(profile_id) ==
    LET mine == { o \in outcomes : profile_id \in {o.profile_id0, o.profile_id1} }
        n == [f \in Factions |->
                JoinedRowCount({ o \in mine : OwnFaction(o, profile_id) = f })]
    IN  GroupRows(1, n, [f \in Factions |-> n[f] \div 2])

\* _get_player_faction_stats(db, profile_id): `faction_names, faction_data =
\* zip(*hist)` raises ValueError when hist is empty.
_get_player_faction_stats(profile_id) ==
    LET hist == PlayerFactionRows(profile_id) IN
    IF hist = <<>>
    THEN [status |-> "ValueError", stats |-> None]
    ELSE [status |-> "ok", stats |-> Some(Histogram(hist))]

\* _get_player_info(db, profile_id): the row of players WHERE profile_id=:pid
\* AND NOT banned, or None.
_get_player_info(profile_id) ==
    IF \E p \in players : p.profile_id = profile_id /\ ~p.banned
    THEN Some(CHOOSE p \in players : p.profile_id = profile_id /\ ~p.banned)
    ELSE None

\* player(profile_id): noplayer.html when there is no such player, else
\* player.html with the statistics; an exception of a statistic ends the
\* handler without a page.  The map statistics are not modelled.
player(profile_id, cur) ==
    LET info == _get_player_info(profile_id)
        rating_stats == _get_player_ratings(profile_id, cur)
        faction_stats == _get_player_faction_stats(profile_id)
    IN  IF info = None
        THEN [status |-> "ok", template |-> "noplayer.html",
              rating_stats |-> None, faction_stats |-> None]
        ELSE IF faction_stats.status # "ok"
        THEN [status |-> faction_stats.status, template |-> "none",
              rating_stats |-> None, faction_stats |-> None]
        ELSE [status |-> "ok", template |-> "player.html",
              rating_stats |-> Some(rating_stats),
              faction_stats |-> faction_stats.stats]

\* GET /player/<profile_id>
PlayerPage ==
    \E profile_id \in ProfileIds :
      \E cur \in PlayerRatingsCursor(profile_id) :
        LET r == player(profile_id, cur) IN
          /\ resp' = [op |-> "player", profile_id |-> profile_id,
                      status |-> r.status, template |-> r.template,
                      rating_stats |-> r.rating_stats,
                      faction_stats |-> r.faction_stats]
          /\ UNCHANGED <<players, outcomes, today>>

\* Ledgers of the statistics specification: players 1 and 2 meet in either
\* order, each with a faction; player 3 has no match.
StatsPairs == {<<1, 2>>, <<2, 1>>}

StatsShapes == [pair : StatsPairs, f0 : Factions, f1 : Factions]

StatsOutcome(h, s) ==
    Outcome(h, BaseDate \o <<h>>, s.pair[1], s.pair[2],
            1500 + 10 * h, 1500, 1500 - 10 * h, 1500, s.f0, s.f1)

StatsLedger(n, c) == { StatsOutcome(h, c[h]) : h \in 1..n }

InitStats ==
    /\ \E st \in [ProfileIds -> {"absent", "ok", "banned"}] :
         players = GamesPlayers(st)
    /\ \E n \in 0..MaxOutcomes :
         \E c \in [1..n -> StatsShapes] : outcomes = StatsLedger(n, c)
    /\ today = BaseDate
    /\ resp = NoResp

NextStats == GetGlobalFactionStats \/ PlayerPage

SpecStats == InitStats /\ [][NextStats]_vars

-----------------------------------------------------------------------------
(* Claims on the faction histograms *)

\* The number of outcomes in which slot 0, and slot 1, selected faction f.
Slot0Count(f) == Cardinality({ o \in outcomes : o.selected_faction_0 = f })

Slot1Count(f) == Cardinality({ o \in outcomes : o.selected_faction_1 = f })

\* C6: in the global faction histogram the count of every faction f is the
\* number of outcomes with selected_faction_0 = f plus the number with
\* selected_faction_1 = f, so the total is twice the number of outcomes.
C6_SlotsSummed ==
    resp.op = "_get_global_faction_stats" =>
      LET h == resp.faction_stats IN
        /\ \A f \in Factions :
             Slot0Count(f) + Slot1Count(f) > 0 =>
               \E k \in 1..Len(h.names) :
                 /\ h.names[k] = f
                 /\ h.data[k] = Slot0Count(f) + Slot1Count(f)
        /\ h.total = 2 * Cardinality(outcomes)

\* C9: for an existing player who is not banned and has no match, the faction
\* histogram is empty (no names, no counts, total 0) and nothing is raised:
\* the player page is rendered, not the noplayer page and not an error.
C9_EmptyHistogram ==
    ( /\ resp.op = "player"
      /\ \E p \in players : p.profile_id = resp.profile_id /\ ~p.banned
      /\ \A o \in outcomes : resp.profile_id \notin {o.profile_id0, o.profile_id1} )
    => /\ resp.status = "ok"
       /\ resp.template = "player.html"
       /\ resp.faction_stats # None
       /\ resp.faction_stats[1].names = <<>>
       /\ resp.faction_stats[1].data = <<>>
       /\ resp.faction_stats[1].total = 0

-----------------------------------------------------------------------------
(* _get_activity_stats *)

\* datetime: proleptic Gregorian ordinals, day 1 is 0001-01-01.
is_leap(year) == year % 4 = 0 /\ (year % 100 # 0 \/ year % 400 = 0)

days_before_year(year) ==
    LET y == year - 1 IN y * 365 + (y \div 4) - (y \div 100) + (y \div 400)

DAYS_IN_MONTH == <<31, 28, 31, 30, 31, 30, 31, 31, 30, 31, 30, 31>>

DAYS_BEFORE_MONTH == <<0, 31, 59, 90, 120, 151, 181, 212, 243, 273, 304, 334>>

days_before_month(year, month) ==
    DAYS_BEFORE_MONTH[month] + (IF month > 2 /\ is_leap(year) THEN 1 ELSE 0)

\* date.fromisoformat(d).toordinal() of the ISO date d = <<y, m, d>>.
ymd2ord(d) == days_before_year(d[1]) + days_before_month(d[1], d[2]) + d[3]

\* date.fromordinal(ordinal).strftime('%Y-%m-%d'): the ISO date of an ordinal.
ord2ymd(ordinal) ==
    LET n0 == ordinal - 1
        n400 == n0 \div 146097
        r400 == n0 % 146097
        n100 == r400 \div 36524
        r100 == r400 % 36524
        n4 == r100 \div 1461
        r4 == r100 % 1461
        n1 == r4 \div 365
        n == r4 % 365
        year == n400 * 400 + 1 + n100 * 100 + n4 * 4 + n1
    IN  IF n1 = 4 \/ n100 = 4 THEN <<year - 1, 12, 31>>
        ELSE LET leapyear == n1 = 3 /\ (n4 # 24 \/ n100 = 3)
                 month0 == (n + 50) \div 32
                 preceding0 == DAYS_BEFORE_MONTH[month0]
                               + (IF month0 > 2 /\ leapyear THEN 1 ELSE 0)
                 month == IF preceding0 > n THEN month0 - 1 ELSE month0
                 preceding == IF preceding0 > n
                              THEN preceding0 - (DAYS_IN_MONTH[month]
                                     + (IF month = 2 /\ leapyear THEN 1 ELSE 0))
                              ELSE preceding0
             IN  <<year, month, n - preceding + 1>>

\* date(end_time): the date part of a timestamp.
DateOf(end_time) == SubSeq(end_time, 1, 3)

\* A set of dates in ascending order.
RECURSIVE SortDates(_)
SortDates(ds) ==
    IF ds = {} THEN <<>>
    ELSE LET d == CHOOSE x \in ds : \A y \in ds : ~TupleLess(y, x)
         IN  <<d>> \o SortDates(ds \ {d})

\* SELECT date(end_time) as date, COUNT(*) as count FROM outcomes
\* GROUP BY date ORDER BY date ASC
OutcomesPerDay ==
    LET ds == SortDates({ DateOf(o.end_time) : o \in outcomes })
    IN  [k \in 1..Len(ds) |->
           [date |-> ds[k],
            count |-> Cardinality({ o \in outcomes : DateOf(o.end_time) = ds[k] })]]

\* Mutant of AllDays: range(nb_days), which leaves out the last day.
AllDaysShort(start_date, nb_days) ==
    IF nb_days < 1 THEN <<>>
    ELSE [k \in 1..nb_days |-> ord2ymd(start_date + (k - 1))]

\* [(start_date + timedelta(n)).strftime('%Y-%m-%d') for n in range(nb_days + 1)]
AllDays(start_date, nb_days) ==
    IF nb_days + 1 < 1 THEN <<>>
    ELSE [k \in 1..(nb_days + 1) |-> ord2ymd(start_date + (k - 1))]

\* db_records.get(d, 0)
DbRecordsGet(outcomes_per_day, d) ==
    IF \E k \in 1..Len(outcomes_per_day) : outcomes_per_day[k].date = d
    THEN (CHOOSE r \in { outcomes_per_day[k] : k \in 1..Len(outcomes_per_day) } :
            r.date = d).count
    ELSE 0

\* _get_activity_stats(db).  all_days holds each date once, so the dict
\* records has one key per entry of all_days, in that order.  The division by
\* len(records) = 0 (the first date is after today) raises ZeroDivisionError.
_get_activity_stats ==
    LET outcomes_per_day == OutcomesPerDay IN
    IF outcomes_per_day = <<>>
    THEN [status |-> "ok", dates |-> None, data |-> None,
          games_per_day |-> [num |-> 0, den |-> 1]]
    ELSE LET start_date == ymd2ord(outcomes_per_day[1].date)
             end_date == ymd2ord(today)
             nb_days == end_date - start_date
             all_days == AllDays(start_date, nb_days)
             data == [k \in 1..Len(all_days) |->
                        DbRecordsGet(outcomes_per_day, all_days[k])]
         IN  IF Len(all_days) = 0
             THEN [status |-> "ZeroDivisionError", dates |-> None, data |-> None,
                   games_per_day |-> [num |-> 0, den |-> 1]]
             ELSE [status |-> "ok", dates |-> Some(all_days), data |-> Some(data),
                   games_per_day |-> [num |-> sum(data), den |-> Len(all_days)]]

\* A call _get_activity_stats(db).
GetActivityStats ==
    /\ resp' = [op |-> "_get_activity_stats", activity_stats |-> _get_activity_stats]
    /\ UNCHANGED <<players, outcomes, today>>

\* The calendar day after an ISO date.
NextDay(d) ==
    LET len == IF d[2] = 2
               THEN (IF d[1] % 4 = 0 /\ (d[1] % 100 # 0 \/ d[1] % 400 = 0)
                     THEN 29 ELSE 28)
               ELSE IF d[2] \in {4, 6, 9, 11} THEN 30 ELSE 31
    IN  IF d[3] < len THEN <<d[1], d[2], d[3] + 1>>
        ELSE IF d[2] < 12 THEN <<d[1], d[2] + 1, 1>>
        ELSE <<d[1] + 1, 1, 1>>

\* The date k days after d.
RECURSIVE DayAfter(_, _)
DayAfter(d, k) == IF k = 0 THEN d ELSE DayAfter(NextDay(d), k - 1)

\* The first days of the ledgers of the activity specification: a plain
\* week, a turn of the year, and the end of February in a leap year, a common
\* year and a century year that is not a leap year.
ActivityBases ==
    {<<2024, 1, 1>>, <<2023, 12, 30>>, <<2024, 2, 27>>, <<2023, 2, 27>>, <<2100, 2, 27>>}

\* The outcome of hash h, ending at time of day h on the given date.
ActivityOutcome(h, d) ==
    Outcome(h, d \o <<h>>, 1, 2, 1500 + 10 * h, 1500, 1500 - 10 * h, 1500,
            "allies", "soviet")

\* Ledgers of the activity specification: each outcome ends 0..MaxSpan days
\* after the base date, and today is one of these days (so an outcome may be
\* dated after today).
InitActivity ==
    /\ players = GamesPlayers([i \in ProfileIds |-> "ok"])
    /\ \E base \in ActivityBases :
         /\ \E n \in 0..MaxOutcomes :
              \E c \in [1..n -> 0..MaxSpan] :
                outcomes = { ActivityOutcome(h, DayAfter(base, c[h])) : h \in 1..n }
         /\ \E k \in 0..MaxSpan : today = DayAfter(base, k)
    /\ resp = NoResp

NextActivity == GetActivityStats

SpecActivity == InitActivity /\ [][NextActivity]_vars

-----------------------------------------------------------------------------
(* Claims on _get_activity_stats *)

\* The dates on which outcomes end.
OutcomeDates == { DateOf(o.end_time) : o \in outcomes }

\* C7: for a non-empty ledger whose outcome dates are all <= today, the date
\* list is every calendar date from the earliest outcome date through today,
\* ascending without gap or duplicate; the count list gives each date's
\* number of outcomes (0 for a day without); games_per_day is the sum of the
\* counts over the number of dates.  Outcomes only on 2024-01-01 and
\* 2024-01-04 with today = 2024-01-04 give 4 dates, counts [1,0,0,1], mean 0.5.
C7_GapFilledTimeline ==
    ( /\ resp.op = "_get_activity_stats"
      /\ outcomes # {}
      /\ \A d \in OutcomeDates : d = today \/ TupleLess(d, today) )
    => LET a == resp.activity_stats IN
       /\ a.status = "ok"
       /\ a.dates # None
       /\ a.data # None
       /\ LET dates == a.dates[1]
              data == a.data[1]
          IN  /\ Len(dates) >= 1
              /\ dates[1] \in OutcomeDates
              /\ \A d \in OutcomeDates : ~TupleLess(d, dates[1])
              /\ dates[Len(dates)] = today
              /\ \A k \in 1..(Len(dates) - 1) : dates[k + 1] = NextDay(dates[k])
              /\ Len(data) = Len(dates)
              /\ \A k \in 1..Len(dates) :
                   data[k] = Cardinality({ o \in outcomes : DateOf(o.end_time) = dates[k] })
              /\ a.games_per_day = [num |-> Cardinality(outcomes), den |-> Len(dates)]
              /\ ( /\ today = <<2024, 1, 4>>
                   /\ OutcomeDates = {<<2024, 1, 1>>, <<2024, 1, 4>>}
                   /\ Cardinality(outcomes) = 2 )
                 => /\ dates = <<<<2024, 1, 1>>, <<2024, 1, 2>>, <<2024, 1, 3>>, <<2024, 1, 4>>>>
                    /\ data = <<1, 0, 0, 1>>
                    /\ 2 * a.games_per_day.num = a.games_per_day.den

\* C7 witness: outcomes on 2024-01-01 and 2024-01-04 only, today 2024-01-04,
\* and the timeline with counts [1,0,0,1].
C7_Witness ==
    /\ resp.op = "_get_activity_stats"
    /\ today = <<2024, 1, 4>>
    /\ OutcomeDates = {<<2024, 1, 1>>, <<2024, 1, 4>>}
    /\ resp.activity_stats.status = "ok"
    /\ resp.activity_stats.data = Some(<<1, 0, 0, 1>>)

=============================================================================
